---------------------------- MODULE Spec2Model ----------------------------
(***************************************************************************)
(* A model of digest.py: the daily funding digest pipeline                 *)
(*   fetch_recent_articles -> filter_and_extract -> format_email ->        *)
(*   send_email, driven by main.                                           *)
(*                                                                         *)
(* Text is modelled as a sequence of tokens (a token stands for the run of *)
(* characters it spells), lists as sequences, dictionaries as tagged       *)
(* records.  What the network answers (the feeds, the completion text, the *)
(* mail relay's behaviour) is chosen in the initial state.                 *)
(***************************************************************************)
EXTENDS Integers, Sequences, FiniteSets

VARIABLES
    pc,         \* position of main: "main","fetch","extract","format","send","done","failed"
    feeds,      \* what feedparser.parse yields for each source of RSS_FEEDS
    answer,     \* the JSON-ish text the extraction service puts in its completion
    fence,      \* how the service wraps that text (fences, language tag)
    smtp,       \* how the mail relay behaves
    i,          \* number of sources of RSS_FEEDS the loop has finished
    articles,   \* fetch_recent_articles: the list being collected
    candidates, \* main: articles (the deduplicated list returned)
    requests,   \* number of client.messages.create calls issued
    rounds,     \* main: rounds
    html,       \* main: html
    mail,       \* what send_email did: calls, sessions, logins, transmissions, subject
    raised,     \* the exception that ended main, or "none"
    stdout      \* the lines printed so far

vars == <<pc, feeds, answer, fence, smtp, i, articles, candidates, requests,
          rounds, html, mail, raised, stdout>>

----------------------------------------------------------------------------
(* Bounds of the model *)

NumSources == 2     \* the model runs the loop over the first NumSources feeds
MaxEntries == 3     \* entries in all feeds of one run, together
MaxElems   == 2     \* elements of the array the service answers with

----------------------------------------------------------------------------
(* Generic helpers *)

Min(a, b) == IF a < b THEN a ELSE b

Take(s, n) == SubSeq(s, 1, Min(Len(s), n))

RECURSIVE SeqsUpTo(_, _)
SeqsUpTo(S, n) ==
    IF n = 0 THEN {<<>>}
    ELSE LET shorter == SeqsUpTo(S, n - 1)
         IN  shorter \cup {Append(s, x) : s \in shorter, x \in S}

RECURSIVE Concat(_)
Concat(ss) == IF ss = <<>> THEN <<>> ELSE Head(ss) \o Concat(Tail(ss))

----------------------------------------------------------------------------
(* Configuration *)

AllFeeds == <<"TechCrunch", "Crunchbase News", "StrictlyVC", "Tech.eu",
              "Sifted", "EU-Startups", "Business Wire">>

RSS_FEEDS == SubSeq(AllFeeds, 1, NumSources)

FUNDING_KEYWORDS == {"series a", "series b", "series c", "funding round",
                     "lead investor", "raises $", "raised $", "secures $"}

Window == 72            \* timedelta(hours=72)
SummaryLimit == 600     \* summary[:600]

Now == Window + 2       \* datetime.now(timezone.utc), in hours

None == 0 - 1           \* published = None

\* str.lower() on one token
Lower(w) ==
    CASE w = "Raises $"      -> "raises $"
      [] w = "Series A"      -> "series a"
      [] w = "SERIES B"      -> "series b"
      [] w = "Lead Investor" -> "lead investor"
      [] w = "Acme"          -> "acme"
      [] w = "Beta"          -> "beta"
      [] w = "Gamma"         -> "gamma"
      [] w = "Weather"       -> "weather"
      [] OTHER               -> w

LowerText(t) == [k \in 1..Len(t) |-> Lower(t[k])]

\* any(kw in text for kw in FUNDING_KEYWORDS)
HasKeyword(text) == \E k \in 1..Len(text) : text[k] \in FUNDING_KEYWORDS

----------------------------------------------------------------------------
(* Step 1: fetch_recent_articles *)

\* published > cutoff   (with published not None)
Recent_ge(published, cutoff) == published # None /\ published >= cutoff

Recent(published, cutoff) == published # None /\ published > cutoff

\* entry.get("link", "")
LinkOf(entry) == IF entry.has_link THEN entry.link ELSE ""

\* the dictionary appended for a qualifying entry
Article(entry, source_name) ==
    [title     |-> entry.title,
     summary   |-> Take(entry.summary, SummaryLimit),
     link      |-> LinkOf(entry),
     published |-> [iso |-> entry.published_parsed],
     source    |-> source_name]

\* the two tests an entry passes to be appended
Qualifies(entry, cutoff) ==
    /\ Recent(entry.published_parsed, cutoff)
    /\ HasKeyword(LowerText(entry.title \o <<" ">> \o entry.summary))

\* the body of the try block for one source: the articles it appends and the
\* exception that ended it ("none" when the loop over feed.entries finished)
RECURSIVE ProcessEntries(_, _, _)
ProcessEntries(entries, source_name, cutoff) ==
    IF entries = <<>> THEN [appended |-> <<>>, exc |-> "none"]
    ELSE LET e == Head(entries)
         IN  IF e.malformed THEN [appended |-> <<>>, exc |-> "TypeError"]
             ELSE LET rest == ProcessEntries(Tail(entries), source_name, cutoff)
                  IN  IF Qualifies(e, cutoff)
                      THEN [appended |-> <<Article(e, source_name)>> \o rest.appended,
                            exc      |-> rest.exc]
                      ELSE rest

TrySource(feed, source_name, cutoff) ==
    IF feed.fails THEN [appended |-> <<>>, exc |-> "URLError"]
    ELSE ProcessEntries(feed.entries, source_name, cutoff)

\* except Exception as e: every exception of the try block is caught
Caught_none(exc) == FALSE

Caught(exc) == exc \in {"URLError", "TypeError"}

\* the deduplication loop: seen is the set of links met so far
RECURSIVE DedupFrom_last(_, _)
DedupFrom_last(arts, seen) ==
    IF arts = <<>> THEN <<>>
    ELSE LET a == Head(arts)
         IN  IF \E k \in 2..Len(arts) : arts[k].link = a.link
             THEN DedupFrom_last(Tail(arts), seen)
             ELSE <<a>> \o DedupFrom_last(Tail(arts), seen)

RECURSIVE DedupFrom(_, _)
DedupFrom(arts, seen) ==
    IF arts = <<>> THEN <<>>
    ELSE LET a == Head(arts)
         IN  IF a.link \notin seen
             THEN <<a>> \o DedupFrom(Tail(arts), seen \cup {a.link})
             ELSE DedupFrom(Tail(arts), seen)

Dedup(arts) == DedupFrom(arts, {})

----------------------------------------------------------------------------
(* Step 2: filter_and_extract *)

FENCE == "<fence>"     \* the token for three backticks
QUOTE == "\""
Whitespace == {"\n", " "}

\* str.strip()
RECURSIVE LStrip(_)
LStrip(t) == IF t # <<>> /\ Head(t) \in Whitespace THEN LStrip(Tail(t)) ELSE t

RECURSIVE RStrip(_)
RStrip(t) ==
    IF t # <<>> /\ t[Len(t)] \in Whitespace THEN RStrip(SubSeq(t, 1, Len(t) - 1)) ELSE t

Strip(t) == RStrip(LStrip(t))

\* str.startswith(token)
StartsWith(t, tok) == t # <<>> /\ Head(t) = tok

\* the text before the first occurrence of sep (all of it when there is none)
RECURSIVE UpTo(_, _)
UpTo(t, sep) ==
    IF t = <<>> \/ Head(t) = sep THEN <<>> ELSE <<Head(t)>> \o UpTo(Tail(t), sep)

\* raw.split("```")[1], for raw that starts with "```"
SplitSecond(t) == UpTo(Tail(t), FENCE)

\* lines 116-121: strip, then drop an opening fence and a "json" tag
Unfence(text) ==
    LET raw == Strip(text)
    IN  IF StartsWith(raw, FENCE)
        THEN LET part == SplitSecond(raw)
             IN  IF StartsWith(part, "json") THEN Tail(part) ELSE part
        ELSE raw

(* JSON values: tagged records *)
JNull      == [t |-> "null"]
JBool(b)   == [t |-> "bool", b |-> b]
JNum(n)    == [t |-> "num",  n |-> n]
JStr(s)    == [t |-> "str",  s |-> s]      \* s: the tokens between the quotes
JArr(a)    == [t |-> "arr",  a |-> a]      \* a: sequence of values
JObj(o)    == [t |-> "obj",  o |-> o]      \* o: sequence of <<key, value>>, in order

Digits == {"0", "7"}

Bad == [ok |-> FALSE]
Good(v, rest) == [ok |-> TRUE, val |-> v, rest |-> rest]

\* a string literal: from the opening quote to the next quote
ParseString(t) ==
    LET body == UpTo(Tail(t), QUOTE)
    IN  IF Len(body) + 1 >= Len(t) THEN Bad
        ELSE Good(JStr(body), SubSeq(t, Len(body) + 3, Len(t)))

\* json.loads: a recursive-descent parse of one value
RECURSIVE ParseValue(_), ParseElems(_, _), ParseMembers(_, _)
ParseValue(t) ==
    LET u == LStrip(t)
    IN  IF u = <<>> THEN Bad
        ELSE CASE Head(u) = "null"  -> Good(JNull, Tail(u))
               [] Head(u) = "true"  -> Good(JBool(TRUE), Tail(u))
               [] Head(u) = "false" -> Good(JBool(FALSE), Tail(u))
               [] Head(u) \in Digits -> Good(JNum(Head(u)), Tail(u))
               [] Head(u) = QUOTE   -> ParseString(u)
               [] Head(u) = "["     ->
                    LET v == LStrip(Tail(u))
                    IN  IF StartsWith(v, "]") THEN Good(JArr(<<>>), Tail(v))
                        ELSE ParseElems(v, <<>>)
               [] Head(u) = "{"     ->
                    LET v == LStrip(Tail(u))
                    IN  IF StartsWith(v, "}") THEN Good(JObj(<<>>), Tail(v))
                        ELSE ParseMembers(v, <<>>)
               [] OTHER -> Bad

ParseElems(t, acc) ==
    LET r == ParseValue(t)
    IN  IF ~r.ok THEN Bad
        ELSE LET u == LStrip(r.rest)
             IN  IF StartsWith(u, ",") THEN ParseElems(Tail(u), Append(acc, r.val))
                 ELSE IF StartsWith(u, "]") THEN Good(JArr(Append(acc, r.val)), Tail(u))
                 ELSE Bad

ParseMembers(t, acc) ==
    LET u == LStrip(t)
    IN  IF ~StartsWith(u, QUOTE) THEN Bad
        ELSE LET k == ParseString(u)
             IN  IF ~k.ok THEN Bad
                 ELSE LET c == LStrip(k.rest)
                      IN  IF ~StartsWith(c, ":") THEN Bad
                          ELSE LET r == ParseValue(Tail(c))
                               IN  IF ~r.ok THEN Bad
                                   ELSE LET w   == LStrip(r.rest)
                                            mem == Append(acc, <<k.val.s, r.val>>)
                                        IN  IF StartsWith(w, ",")
                                            THEN ParseMembers(Tail(w), mem)
                                            ELSE IF StartsWith(w, "}")
                                            THEN Good(JObj(mem), Tail(w))
                                            ELSE Bad

\* json.loads(raw): [ok |-> FALSE] stands for JSONDecodeError
loads(text) ==
    LET r == ParseValue(text)
    IN  IF r.ok /\ LStrip(r.rest) = <<>> THEN [ok |-> TRUE, val |-> r.val] ELSE Bad

\* "for r in rounds": what iterating a parsed value yields, or TypeError
Iterable(v) == v.t \in {"arr", "obj", "str"}

Items(v) ==
    CASE v.t = "arr" -> v.a
      [] v.t = "obj" -> [k \in 1..Len(v.o) |-> JStr(v.o[k][1])]
      [] v.t = "str" -> [k \in 1..Len(v.s) |-> JStr(<<v.s[k]>>)]
      [] OTHER       -> <<>>

\* isinstance(r, dict)
IsDict(r) == r.t = "obj"

\* [r for r in xs if isinstance(r, dict)]
RECURSIVE OnlyDicts(_)
OnlyDicts(xs) ==
    IF xs = <<>> THEN <<>>
    ELSE IF IsDict(Head(xs)) THEN <<Head(xs)>> \o OnlyDicts(Tail(xs))
    ELSE OnlyDicts(Tail(xs))

\* if not articles: return []   (before the client is built)
SkipsRequest_never(arts) == FALSE

SkipsRequest(arts) == arts = <<>>

\* except json.JSONDecodeError: the warning is printed and [] is returned
OnDecodeError_reraise == [ret |-> <<>>, exc |-> "JSONDecodeError", out |-> <<>>]

OnDecodeError == [ret |-> <<>>, exc |-> "none", out |-> <<"Warning: could not parse">>]

\* lines 123-128, for the text the service returned
ParseRounds(text) ==
    LET parsed == loads(Unfence(text))
    IN  IF ~parsed.ok THEN OnDecodeError
        ELSE IF ~Iterable(parsed.val)
             THEN [ret |-> <<>>, exc |-> "TypeError", out |-> <<>>]
             ELSE [ret |-> OnlyDicts(Items(parsed.val)), exc |-> "none", out |-> <<>>]

\* the text of the completion: the answer inside the service's wrapping
Wrap(style, text) ==
    CASE style = "none"     -> text
      [] style = "bare"     -> <<FENCE>> \o text \o <<FENCE>>
      [] style = "json"     -> <<FENCE, "json">> \o text \o <<FENCE>>
      [] style = "json_nl"  -> <<FENCE, "json", "\n">> \o text \o <<"\n", FENCE>>
      [] style = "other_nl" -> <<FENCE, "JSON", "\n">> \o text \o <<"\n", FENCE>>
      [] style = "padded"   -> <<"\n", FENCE, "\n">> \o text \o <<"\n", FENCE, "\n">>
      [] style = "prose"    -> <<"Here:", "\n", FENCE, "json", "\n">> \o text \o <<"\n", FENCE>>
      [] OTHER              -> <<>>

\* filter_and_extract(articles), with the service answering reply (or raising)
filter_and_extract(arts, style, text) ==
    IF SkipsRequest(arts)
    THEN [ret |-> <<>>, exc |-> "none", out |-> <<>>, calls |-> 0]
    ELSE IF style = "APIError"
         THEN [ret |-> <<>>, exc |-> "APIError", out |-> <<>>, calls |-> 1]
         ELSE LET r == ParseRounds(Wrap(style, text))
              IN  [ret |-> r.ret, exc |-> r.exc, out |-> r.out, calls |-> 1]

----------------------------------------------------------------------------
(* Step 3: format_email *)

Stages == <<"Series A", "Series B", "Series C">>

STAGE_COLOURS(stage) ==
    CASE stage = "Series A" -> "#4a90d9"
      [] stage = "Series B" -> "#7b5ea7"
      [] stage = "Series C" -> "#e07b39"
      [] OTHER              -> "#888"

\* r.get(key, default): the value of the last member named key
RECURSIVE GetFrom(_, _, _)
GetFrom(members, key, default) ==
    IF members = <<>> THEN default
    ELSE LET m == members[Len(members)]
         IN  IF m[1] = <<key>> THEN m[2]
             ELSE GetFrom(SubSeq(members, 1, Len(members) - 1), key, default)

Get(r, key, default) == GetFrom(r.o, key, default)

\* r.get("stage") == stage
HasStage(r, stage) == Get(r, "stage", JNull) = JStr(<<stage>>)

\* the stage of a round that is in one of the three buckets, "" otherwise
StageOf(r) ==
    IF \E k \in 1..Len(Stages) : HasStage(r, Stages[k])
    THEN (CHOOSE st \in {Stages[k] : k \in 1..Len(Stages)} : HasStage(r, st))
    ELSE ""

card(r) ==
    [tag       |-> "div",
     colour    |-> STAGE_COLOURS(StageOf(r)),
     company   |-> Get(r, "company", JStr(<<"?">>)),
     amount    |-> Get(r, "amount", JStr(<<"?">>)),
     sector    |-> Get(r, "sector", JStr(<<>>)),
     location  |-> Get(r, "location", JStr(<<>>)),
     summary   |-> Get(r, "summary", JStr(<<>>)),
     investors |-> Get(r, "investors", JStr(<<"Unknown">>)),
     link      |-> Get(r, "link", JStr(<<"#">>))]

\* items = [r for r in rounds if r.get("stage") == stage]
RECURSIVE ItemsOf_first(_, _)
ItemsOf_first(rs, stage) ==
    IF rs = <<>> THEN <<>>
    ELSE IF HasStage(Head(rs), stage) THEN <<Head(rs)>>
    ELSE ItemsOf_first(Tail(rs), stage)

RECURSIVE ItemsOf(_, _)
ItemsOf(rs, stage) ==
    IF rs = <<>> THEN <<>>
    ELSE IF HasStage(Head(rs), stage) THEN <<Head(rs)>> \o ItemsOf(Tail(rs), stage)
    ELSE ItemsOf(Tail(rs), stage)

Header(stage, n) ==
    [tag |-> "h2", stage |-> stage, count |-> n, colour |-> STAGE_COLOURS(stage)]

\* one pass of "for stage in [...]": nothing, or the header and the cards
Bucket(rs, stage) ==
    LET items == ItemsOf(rs, stage)
    IN  IF items = <<>> THEN <<>>
        ELSE <<Header(stage, Len(items))>> \o [k \in 1..Len(items) |-> card(items[k])]

Placeholder == [tag |-> "p", text |-> "No qualifying Series A/B/C rounds found"]

format_email(rs) ==
    [title  |-> "Startup Funding Digest",
     body   |-> IF rs = <<>> THEN <<Placeholder>>
                ELSE Concat([k \in 1..Len(Stages) |-> Bucket(rs, Stages[k])]),
     footer |-> "Sources"]

----------------------------------------------------------------------------
(* Step 4: send_email *)

Subject(num_rounds) ==
    [prefix |-> "Funding Digest",
     count  |-> num_rounds,
     noun   |-> IF num_rounds # 1 THEN "new rounds" ELSE "new round"]

NoMail == [calls |-> 0, connects |-> 0, logins |-> 0, sendmails |-> 0, msgs |-> <<>>]

\* what leaves the "with smtplib.SMTP_SSL(...)" block under the relay's behaviour
SmtpError(outcome) ==
    CASE outcome = "connect_fails"  -> "SMTPConnectError"
      [] outcome = "login_fails"    -> "SMTPAuthenticationError"
      [] outcome = "sendmail_fails" -> "SMTPRecipientsRefused"
      [] OTHER                      -> "none"

\* one session: connect, login, sendmail, each only if the one before succeeded
Attempt(m, outcome) ==
    [m EXCEPT !.connects  = @ + 1,
              !.logins    = @ + (IF outcome = "connect_fails" THEN 0 ELSE 1),
              !.sendmails = @ + (IF outcome \in {"connect_fails", "login_fails"} THEN 0 ELSE 1)]

Built(m, page, num_rounds) ==
    [m EXCEPT !.calls = @ + 1,
              !.msgs  = Append(@, [subject |-> Subject(num_rounds), html |-> page])]

send_email_retry(m, page, num_rounds, outcome) ==
    LET once == Attempt(Built(m, page, num_rounds), outcome)
    IN  IF outcome = "ok" THEN [mail |-> once, exc |-> "none"]
        ELSE [mail |-> Attempt(once, outcome), exc |-> "none"]

send_email(m, page, num_rounds, outcome) ==
    [mail |-> Attempt(Built(m, page, num_rounds), outcome), exc |-> SmtpError(outcome)]

----------------------------------------------------------------------------
(* What the network can answer *)

Cutoff == Now - Window       \* cutoff = now - timedelta(hours=72)

Entry(t, title, summary, has_link, link) ==
    [published_parsed |-> t, title |-> title, summary |-> summary,
     has_link |-> has_link, link |-> link, malformed |-> FALSE]

Malformed == [Entry(Cutoff + 1, <<"Acme">>, <<>>, FALSE, "") EXCEPT !.malformed = TRUE]

Entries ==
    { Entry(Cutoff + 1, <<"Acme", "Raises $", "5M">>, <<>>, TRUE, "u1"),
      Entry(Cutoff + 1, <<"Beta", "Series A">>, <<>>, TRUE, "u1"),
      Entry(Cutoff + 1, <<"Gamma">>, <<"Lead Investor", "X">>, TRUE, "u2"),
      Entry(Cutoff + 1, <<"Weather">>, <<>>, TRUE, "u2"),
      Entry(Cutoff,     <<"Acme", "Raises $", "5M">>, <<>>, TRUE, "u2"),
      Entry(Cutoff - 1, <<"Beta", "Series A">>, <<>>, TRUE, "u1"),
      Entry(None,       <<"Gamma", "SERIES B">>, <<>>, TRUE, "u2"),
      Entry(Cutoff + 1, <<"Acme", "Raises $", "5M">>, <<>>, FALSE, ""),
      Malformed }

FailingFeed == [fails |-> TRUE, entries |-> <<>>]

WorkingFeed(es) == [fails |-> FALSE, entries |-> es]

Published(fs) == Len(Concat([s \in 1..Len(fs) |-> fs[s].entries]))

\* every source answers the same: nothing, one qualifying entry, or a failure
UniformFeeds ==
    { [s \in 1..NumSources |-> f] :
        f \in { FailingFeed,
                WorkingFeed(<<>>),
                WorkingFeed(<<Entry(Cutoff + 1, <<"Acme", "Raises $", "5M">>, <<>>, TRUE, "u1")>>) } }

Str(w) == <<QUOTE, w, QUOTE>>

Member(key, w) == Str(key) \o <<":">> \o Str(w)

ElemTexts ==
    { <<"{">> \o Member("company", "Acme") \o <<",">> \o Member("stage", "Series A") \o <<"}">>,
      <<"{">> \o Member("stage", "Series B") \o <<"}">>,
      <<"{">> \o Member("stage", "Series C") \o <<"}">>,
      <<"{">> \o Member("stage", "Seed") \o <<"}">>,
      <<"{">> \o Member("company", "Acme") \o <<"}">>,
      <<"{">> \o Member("stage", "Series B") \o <<",", QUOTE, "summary", QUOTE, ":",
                 QUOTE, "a", FENCE, "b", QUOTE, "}">>,
      <<"7">>,
      <<"null">> }

RECURSIVE Join(_)
Join(ts) ==
    IF ts = <<>> THEN <<>>
    ELSE IF Len(ts) = 1 THEN Head(ts)
    ELSE Head(ts) \o <<",">> \o Join(Tail(ts))

ArrayTexts == { <<"[">> \o Join(es) \o <<"]">> : es \in SeqsUpTo(ElemTexts, MaxElems) }

OtherJsonTexts ==
    { <<"{">> \o Member("stage", "Series A") \o <<"}">>,
      Str("Series A"),
      <<"7">>,
      <<"true">>,
      <<"null">> }

InvalidTexts ==
    { <<>>,
      <<"Sorry">>,
      <<"[", "7">>,
      <<"[", "7", ",", "]">>,
      <<"[", "7", "]", "Sorry">> }

Texts == ArrayTexts \cup OtherJsonTexts \cup InvalidTexts

FenceStyles == {"none", "bare", "json", "json_nl", "other_nl", "padded", "prose"}

Relay == {"ok", "connect_fails", "login_fails", "sendmail_fails"}

----------------------------------------------------------------------------
(* main *)

Emit(lines) == stdout' = stdout \o lines

InitProgram ==
    /\ pc = "main"
    /\ i = 0
    /\ articles = <<>>
    /\ candidates = <<>>
    /\ requests = 0
    /\ rounds = <<>>
    /\ html = [title |-> "", body |-> <<>>, footer |-> ""]
    /\ mail = NoMail
    /\ raised = "none"
    /\ stdout = <<>>

Init ==
    /\ feeds \in UniformFeeds
    /\ \/ fence \in FenceStyles /\ answer \in Texts
       \/ fence = "APIError" /\ answer = <<>>
    /\ smtp \in Relay
    /\ InitProgram

InitCollector ==
    /\ feeds = [s \in 1..NumSources |-> WorkingFeed(<<>>)]
    /\ fence = "none"
    /\ answer = <<"[", "]">>
    /\ smtp = "ok"
    /\ InitProgram

Env == <<feeds, answer, fence, smtp>>

\* main, line 225; fetch_recent_articles, lines 40-41
StartFetch ==
    /\ pc = "main"
    /\ pc' = "fetch"
    /\ i' = 0
    /\ articles' = <<>>
    /\ Emit(<<"1/4 Fetching RSS feeds">>)
    /\ UNCHANGED <<Env, candidates, requests, rounds, html, mail, raised>>

\* one pass of "for source_name, url in RSS_FEEDS", its except clause included
FetchSource ==
    /\ pc = "fetch"
    /\ i < NumSources
    /\ LET r == TrySource(feeds[i + 1], RSS_FEEDS[i + 1], Cutoff)
       IN  /\ articles' = articles \o r.appended
           /\ IF r.exc = "none"
              THEN i' = i + 1 /\ UNCHANGED <<pc, raised, stdout>>
              ELSE IF Caught(r.exc)
              THEN /\ i' = i + 1
                   /\ Emit(<<"Warning: could not fetch">>)
                   /\ UNCHANGED <<pc, raised>>
              ELSE /\ pc' = "failed"
                   /\ raised' = r.exc
                   /\ UNCHANGED <<i, stdout>>
    /\ UNCHANGED <<Env, candidates, requests, rounds, html, mail>>

\* lines 64-72, then main, lines 227 and 229
FetchReturn ==
    /\ pc = "fetch"
    /\ i = NumSources
    /\ candidates' = Dedup(articles)
    /\ pc' = "extract"
    /\ Emit(<<"candidate articles found", "2/4 Filtering with Claude">>)
    /\ UNCHANGED <<Env, i, articles, requests, rounds, html, mail, raised>>

\* main, lines 230-233
FilterAndExtract ==
    /\ pc = "extract"
    /\ LET r == filter_and_extract(candidates, fence, answer)
       IN  /\ requests' = requests + r.calls
           /\ IF r.exc = "none"
              THEN /\ rounds' = r.ret
                   /\ pc' = "format"
                   /\ Emit(r.out \o <<"qualifying rounds", "3/4 Formatting email">>)
                   /\ UNCHANGED raised
              ELSE /\ pc' = "failed"
                   /\ raised' = r.exc
                   /\ Emit(r.out)
                   /\ UNCHANGED rounds
    /\ UNCHANGED <<Env, i, articles, candidates, html, mail>>

\* main, lines 234 and 236
FormatEmail ==
    /\ pc = "format"
    /\ html' = format_email(rounds)
    /\ pc' = "send"
    /\ Emit(<<"4/4 Sending email">>)
    /\ UNCHANGED <<Env, i, articles, candidates, requests, rounds, mail, raised>>

\* main, lines 237-238
SendEmail ==
    /\ pc = "send"
    /\ LET r == send_email(mail, html, Len(rounds), smtp)
       IN  /\ mail' = r.mail
           /\ IF r.exc = "none"
              THEN /\ pc' = "done"
                   /\ Emit(<<"Email sent", "Done.">>)
                   /\ UNCHANGED raised
              ELSE /\ pc' = "failed"
                   /\ raised' = r.exc
                   /\ UNCHANGED stdout
    /\ UNCHANGED <<Env, i, articles, candidates, requests, rounds, html>>

Next ==
    \/ StartFetch
    \/ FetchSource
    \/ FetchReturn
    \/ FilterAndExtract
    \/ FormatEmail
    \/ SendEmail

Spec == Init /\ [][Next]_vars

\* before the run: a source publishes one more entry, or goes out of order
SourcePublishes ==
    /\ pc = "main"
    /\ Published(feeds) < MaxEntries
    /\ \E s \in 1..NumSources, e \in Entries :
          /\ ~feeds[s].fails
          /\ feeds' = [feeds EXCEPT ![s].entries = Append(@, e)]
    /\ UNCHANGED <<answer, fence, smtp, pc, i, articles, candidates, requests,
                   rounds, html, mail, raised, stdout>>

SourceBreaks ==
    /\ pc = "main"
    /\ \E s \in 1..NumSources :
          /\ feeds[s] = WorkingFeed(<<>>)
          /\ feeds' = [feeds EXCEPT ![s] = FailingFeed]
    /\ UNCHANGED <<answer, fence, smtp, pc, i, articles, candidates, requests,
                   rounds, html, mail, raised, stdout>>

NextCollector ==
    \/ SourcePublishes
    \/ SourceBreaks
    \/ StartFetch
    \/ FetchSource
    \/ FetchReturn

SpecCollector == InitCollector /\ [][NextCollector]_vars

----------------------------------------------------------------------------
(* Vocabulary of the properties *)

Range(seq) == {seq[k] : k \in 1..Len(seq)}

Printed(line) == line \in Range(stdout)

Count(line) == Cardinality({k \in 1..Len(stdout) : stdout[k] = line})

\* fetch_recent_articles has returned
Fetched == pc \notin {"main", "fetch"}

\* filter_and_extract has returned or raised
Extracted == pc \notin {"main", "fetch", "extract"}

\* a source whose try block raises: the fetch fails or an entry is malformed
Failing(s) == feeds[s].fails \/ \E k \in 1..Len(feeds[s].entries) : feeds[s].entries[k].malformed

\* entry k of source s passes the recency and keyword tests
QualifyingAt(s, k) ==
    LET e == feeds[s].entries[k]
    IN  /\ e.published_parsed # None
        /\ e.published_parsed > Cutoff
        /\ \E w \in Range(e.title) \cup Range(e.summary) : Lower(w) \in FUNDING_KEYWORDS

ArticleAt(s, k) == Article(feeds[s].entries[k], RSS_FEEDS[s])

\* the text of the completion, and what is left of it for json.loads
Reply == Wrap(fence, answer)

Answered == Extracted /\ requests = 1 /\ fence # "APIError"

----------------------------------------------------------------------------
(* C1 *)

\* C1 as stated: no failure of a source aborts the Collector; the loop goes on
\* over all the sources (one warning for each failing one), the function
\* returns, and every qualifying entry of every non-failing source is in the
\* returned list.
C1_AsStated ==
    /\ pc # "failed"
    /\ Count("Warning: could not fetch") = Cardinality({s \in 1..i : Failing(s)})
    /\ Fetched =>
         /\ i = NumSources
         /\ \A s \in 1..NumSources : ~Failing(s) =>
              \A k \in 1..Len(feeds[s].entries) :
                 QualifyingAt(s, k) => ArticleAt(s, k) \in Range(candidates)

\* C1, amended: as above, but a qualifying entry of a non-failing source may be
\* represented in the returned list by an article with the same link that was
\* collected earlier in fetch order.
C1_FailuresAreSkipped ==
    /\ pc # "failed"
    /\ Count("Warning: could not fetch") = Cardinality({s \in 1..i : Failing(s)})
    /\ Fetched =>
         /\ i = NumSources
         /\ \A s \in 1..NumSources : ~Failing(s) =>
              \A k \in 1..Len(feeds[s].entries) :
                 QualifyingAt(s, k) =>
                    \/ ArticleAt(s, k) \in Range(candidates)
                    \/ \E s2 \in 1..s :
                         \E k2 \in 1..Len(feeds[s2].entries) :
                            /\ s2 < s \/ k2 < k
                            /\ ArticleAt(s2, k2) \in Range(candidates)
                            /\ ArticleAt(s2, k2).link = ArticleAt(s, k).link

\* the first source fails, the second does not and its entry is returned
C1_Witness ==
    /\ pc = "extract"
    /\ feeds[1].fails
    /\ ~Failing(NumSources)
    /\ Len(feeds[NumSources].entries) > 0
    /\ QualifyingAt(NumSources, 1)
    /\ ArticleAt(NumSources, 1) \in Range(candidates)
    /\ Printed("Warning: could not fetch")

----------------------------------------------------------------------------
(* C4 *)

FirstWithLink(link) == CHOOSE k \in 1..Len(articles) :
    /\ articles[k].link = link
    /\ \A j \in 1..(k - 1) : articles[j].link # link

\* C4: the returned list has no two articles with the same link; for every
\* link among the collected articles it holds the first one collected with
\* that link; and it keeps the collection order.
C4_DedupFirstWins ==
    Fetched =>
      /\ \A j, k \in 1..Len(candidates) :
            candidates[j].link = candidates[k].link => j = k
      /\ {a.link : a \in Range(articles)} = {c.link : c \in Range(candidates)}
      /\ \A j \in 1..Len(candidates) :
            candidates[j] = articles[FirstWithLink(candidates[j].link)]
      /\ \A j, k \in 1..Len(candidates) :
            j < k => FirstWithLink(candidates[j].link) < FirstWithLink(candidates[k].link)

\* two different articles without a link were collected, then a linked one
C4_Witness ==
    /\ pc = "extract"
    /\ Len(articles) = 3
    /\ articles[1].link = ""
    /\ articles[2].link = ""
    /\ articles[1] # articles[2]
    /\ articles[3].link # ""
    /\ candidates = <<articles[1], articles[3]>>

----------------------------------------------------------------------------
(* C5 *)

\* C5: every returned article comes from an entry whose publish timestamp is
\* parsed and strictly later than the cutoff, keyword or not.
C5_OnlyRecent ==
    Fetched =>
      \A j \in 1..Len(candidates) :
         /\ candidates[j].published.iso # None
         /\ candidates[j].published.iso > Now - Window
         /\ \E s \in 1..NumSources :
              \E k \in 1..Len(feeds[s].entries) :
                 LET e == feeds[s].entries[k]
                 IN  /\ e.published_parsed = candidates[j].published.iso
                     /\ e.title = candidates[j].title
                     /\ RSS_FEEDS[s] = candidates[j].source

\* a feed holds a keyword entry dated exactly at the cutoff, one without a
\* timestamp, and then a recent one: only the last is returned
C5_Witness ==
    /\ pc = "extract"
    /\ \E s \in 1..NumSources :
          /\ Len(feeds[s].entries) = 3
          /\ feeds[s].entries[1].published_parsed = Cutoff
          /\ HasKeyword(LowerText(feeds[s].entries[1].title))
          /\ feeds[s].entries[2].published_parsed = None
          /\ HasKeyword(LowerText(feeds[s].entries[2].title))
          /\ candidates = <<ArticleAt(s, 3)>>

----------------------------------------------------------------------------
(* C2 *)

SmtpErrors == {"SMTPConnectError", "SMTPAuthenticationError", "SMTPRecipientsRefused"}

\* what json.loads is given does not parse
NotJson == fence # "APIError" /\ ~loads(Unfence(Reply)).ok

\* C2: when the text of the response does not parse as JSON, filter_and_extract
\* returns [] without raising, and main goes on: it renders the placeholder
\* and calls send_email with a round count of 0.
C2_BadJsonGivesEmptyDigest ==
    NotJson =>
      /\ raised \in {"none"} \cup SmtpErrors
      /\ Extracted => pc # "extract" /\ rounds = <<>>
      /\ pc \in {"send", "done", "failed"} => html.body = <<Placeholder>>
      /\ pc \in {"done", "failed"} =>
           /\ mail.calls = 1
           /\ mail.connects = 1
           /\ mail.msgs[1].subject.count = 0
           /\ mail.msgs[1].html.body = <<Placeholder>>

\* the service was asked, answered with prose, and the empty digest was sent
C2_Witness ==
    /\ pc = "done"
    /\ requests = 1
    /\ fence = "none"
    /\ answer = <<"Sorry">>
    /\ Printed("Warning: could not parse")
    /\ mail.sendmails = 1
    /\ mail.msgs[1].subject.count = 0

----------------------------------------------------------------------------
(* C3 *)

\* C3: the mail is transmitted at most once, and only after fetch, extraction
\* and rendering are over; a failure of login or sendmail leaves main as an
\* uncaught exception, before "Done." and without a second attempt.
C3_SendOnceAndFailFatally ==
    /\ mail.calls <= 1 /\ mail.connects <= 1 /\ mail.logins <= 1 /\ mail.sendmails <= 1
    /\ mail.calls = 1 =>
         /\ i = NumSources
         /\ Printed("candidate articles found")
         /\ Printed("qualifying rounds")
         /\ Printed("4/4 Sending email")
         /\ mail.msgs = <<[subject |-> Subject(Len(rounds)), html |-> html]>>
         /\ html.title # ""
    /\ (mail.calls = 1 /\ smtp \in {"login_fails", "sendmail_fails"}) =>
         /\ pc = "failed"
         /\ raised \in {"SMTPAuthenticationError", "SMTPRecipientsRefused"}
         /\ mail.connects = 1
    /\ pc = "failed" => ~Printed("Done.")
    /\ Printed("Done.") => pc = "done" /\ smtp = "ok" /\ mail.sendmails = 1

\* the relay refused the login: one session, no transmission, main failed
C3_Witness ==
    /\ pc = "failed"
    /\ smtp = "login_fails"
    /\ raised = "SMTPAuthenticationError"
    /\ mail.connects = 1
    /\ mail.logins = 1
    /\ mail.sendmails = 0
    /\ ~Printed("Done.")

----------------------------------------------------------------------------
(* C6 *)

Fenced == {"bare", "json", "json_nl", "other_nl", "padded"}

\* C6 as stated: for a JSON array inside triple-backtick fences, with or
\* without a language tag, filter_and_extract returns the records it returns
\* for the array's text alone.
C6_AsStated ==
    (Answered /\ fence \in Fenced /\ answer \in ArrayTexts) =>
       /\ raised \notin {"JSONDecodeError", "TypeError"}
       /\ rounds = ParseRounds(answer).ret

----------------------------------------------------------------------------
(* C7 *)

Rendered == Printed("4/4 Sending email")

StageIndex(st) == CHOOSE k \in 1..Len(Stages) : Stages[k] = st

InStage(st) == SelectSeq(rounds, LAMBDA r : Get(r, "stage", JNull) = JStr(<<st>>))

\* C7: for a non-empty list of rounds the body is made of buckets in the
\* order Series A, Series B, Series C: a stage has a header iff some round has
\* exactly that stage, the header shows how many, the cards under it are those
\* of these rounds in input order, and there is no other card.
C7_Buckets ==
    (Rendered /\ rounds # <<>>) =>
       LET body  == html.body
           heads == {p \in 1..Len(body) : body[p].tag = "h2"}
       IN  /\ \A k \in 1..Len(Stages) :
                 (InStage(Stages[k]) # <<>>) <=> (\E p \in heads : body[p].stage = Stages[k])
           /\ \A p, q \in heads :
                 p < q => StageIndex(body[p].stage) < StageIndex(body[q].stage)
           /\ \A p \in heads :
                 LET items == InStage(body[p].stage)
                 IN  /\ body[p].count = Len(items)
                     /\ p + Len(items) <= Len(body)
                     /\ \A k \in 1..Len(items) : body[p + k] = card(items[k])
           /\ \A q \in 1..Len(body) :
                 body[q].tag = "div" =>
                    \E p \in heads : p < q /\ q <= p + body[p].count

\* the rounds come as Series C, then Series A: the body is the Series A
\* header and card, then the Series C header and card
C7_Witness ==
    /\ pc = "send"
    /\ Len(rounds) = 2
    /\ Get(rounds[1], "stage", JNull) = JStr(<<"Series C">>)
    /\ Get(rounds[2], "stage", JNull) = JStr(<<"Series A">>)
    /\ Len(html.body) = 4
    /\ html.body[1].tag = "h2" /\ html.body[1].stage = "Series A"
    /\ html.body[3].tag = "h2" /\ html.body[3].stage = "Series C"

----------------------------------------------------------------------------
(* C8 *)

\* C8: with no candidate, filter_and_extract returns [] and asks nothing of
\* the extraction service; no run asks it more than once.
C8_NoRequestWithoutCandidates ==
    /\ requests <= 1
    /\ requests = 1 => candidates # <<>>
    /\ (Extracted /\ candidates = <<>>) =>
         /\ requests = 0
         /\ rounds = <<>>
         /\ raised \in {"none"} \cup SmtpErrors

\* every source failed, nothing was asked, the empty digest went out
C8_Witness ==
    /\ pc = "done"
    /\ \A s \in 1..NumSources : feeds[s].fails
    /\ candidates = <<>>
    /\ requests = 0
    /\ html.body = <<Placeholder>>

----------------------------------------------------------------------------
(* C9 *)

\* C9 as stated: for every response that is valid JSON filter_and_extract
\* returns without raising; for an array exactly its dictionaries, in order;
\* for any other value a list of dictionaries only.
C9_AsStated ==
    (Answered /\ loads(Unfence(Reply)).ok) =>
       LET v == loads(Unfence(Reply)).val
       IN  /\ pc # "failed" \/ raised \in SmtpErrors
           /\ v.t = "arr" => rounds = SelectSeq(v.a, LAMBDA r : r.t = "obj")
           /\ \A k \in 1..Len(rounds) : rounds[k].t = "obj"

----------------------------------------------------------------------------
(* C10 *)

Cards(page) == Cardinality({q \in 1..Len(page.body) : page.body[q].tag = "div"})

\* C10 as stated: the round count of the subject equals the number of cards in
\* the body of the same message.
C10_AsStated ==
    \A m \in 1..Len(mail.msgs) :
       mail.msgs[m].subject.count = Cards(mail.msgs[m].html)

============================================================================
